---- MODULE Spec2Model ----
(***************************************************************************)
(* HDB Resale Price Predictor (src/hdb-resale-price.py).                   *)
(*                                                                         *)
(* The program is a Streamlit script: every request (page load, widget     *)
(* change, button click) re-runs the script from its first line.  The only *)
(* state that outlives a run is the store of @st.cache_resource, which     *)
(* memoises load_model().  One action below is one whole run of the        *)
(* script along one of its paths.                                          *)
(*                                                                         *)
(* Units: floor_area is sampled in whole square metres; a raw model output *)
(* is an amount in cents (so that 412,374.50 is the integer 41237450);     *)
(* rounded_price is an amount in dollars.                                  *)
(***************************************************************************)
EXTENDS Integers, Sequences, FiniteSets, TLC

\* ------------------------------------------------------------------ bounds
\* Script runs explored per process.
MaxRuns == 4
\* Raw model outputs range over the multiples of 500 dollars from
\* -MaxRawHalves*500 to MaxRawHalves*500 (every rounding tie and every exact
\* multiple of 1000 in that range), plus the outputs of ExampleRaws.
MaxRawHalves == 3

\* ------------------------------------------------------- program constants
\* st.number_input("Floor Area (sqm)", min_value=1.0, max_value=500.0, value=148.0)
floor_area_min == 1
floor_area_max == 500
floor_area_value == 148
\* st.number_input("Lease Commencement Date", min_value=1960, max_value=2024, value=1992)
lease_commence_date_min == 1960
lease_commence_date_max == 2024
lease_commence_date_value == 1992
\* st.number_input("Postal Code", min_value=10000, max_value=999999, value=520329)
postal_code_min == 10000
postal_code_max == 999999
postal_code_value == 520329

towns ==
  << "ANG MO KIO", "BEDOK", "BISHAN", "BUKIT BATOK", "BUKIT MERAH",
     "BUKIT PANJANG", "BUKIT TIMAH", "CENTRAL AREA", "CHOA CHU KANG",
     "CLEMENTI", "GEYLANG", "HOUGANG", "JURONG EAST", "JURONG WEST",
     "KALLANG/WHAMPOA", "MARINE PARADE", "PASIR RIS", "PUNGGOL",
     "QUEENSTOWN", "SEMBAWANG", "SENGKANG", "SERANGOON", "TAMPINES",
     "TOA PAYOH", "WOODLANDS", "YISHUN" >>

flat_types ==
  << "3 ROOM", "4 ROOM", "5 ROOM", "EXECUTIVE", "MULTI-GENERATION" >>

\* The two values load_model() can return, and `model` before the first run.
ModelHandle == "XBR_trained_hdb_resale_modelV4a"
None == "None"
Unbound == "unbound"

\* The three st.error messages of the script.
LoadError == "Error loading model"
ModelUnavailable == "Could not load the model"
PredictionError == "An error occurred during prediction"

Range(s) == { s[i] : i \in DOMAIN s }

VARIABLES
  cache,               \* store of @st.cache_resource for load_model: << >> or <<value>>
  load_calls,          \* executions of load_model's body (joblib.load attempts)
  model,               \* the script's `model` in the last run
  floor_area, lease_commence_date, postal_code,   \* number_input values
  selected_town, selected_flat_type,               \* selectbox values
  predict_clicked,     \* st.button("Predict Price") in the last run
  features,            \* the list built in the last run (<< >> when not built)
  predict_batch,       \* argument of model.predict in the last run (<< >> when not called)
  predict_calls,       \* calls of model.predict in the last run
  predict_raised,      \* model.predict raised in the last run
  prediction,          \* value returned by model.predict (<< >> when none)
  rounded_price,       \* << >> or <<the price displayed>>
  errors,              \* st.error messages shown by the last run
  stopped,             \* the last run ended in st.stop()
  form_rendered,       \* the last run rendered the input widgets
  completed,           \* the last run reached the end of the script
  runs,                \* script runs so far
  load_failed,         \* history: a joblib.load attempt has raised
  had_inference_error, \* history: a model.predict call has raised
  probe                \* history: << >> or <<[run, input, vector]>> of one earlier encoding

vars ==
  << cache, load_calls, model, floor_area, lease_commence_date, postal_code,
     selected_town, selected_flat_type, predict_clicked, features,
     predict_batch, predict_calls, predict_raised, prediction, rounded_price,
     errors, stopped, form_rendered, completed, runs, load_failed,
     had_inference_error, probe >>

widgets ==
  << floor_area, lease_commence_date, postal_code, selected_town,
     selected_flat_type >>

\* ------------------------------------------------------------ input domains
FloorAreas == { floor_area_min, floor_area_value, floor_area_max }
LeaseDates ==
  { lease_commence_date_min, lease_commence_date_value, lease_commence_date_max }
PostalCodes == { postal_code_min, postal_code_value, postal_code_max }

\* Every form the widgets can hold (numeric fields at min, default, max).
ValidForms ==
  FloorAreas \X LeaseDates \X PostalCodes \X Range(towns) \X Range(flat_types)

\* Strings outside the option lists: HDB towns and flat types the lists do
\* not declare, and a differently-cased spelling.
UnlistedTowns == { "TENGAH", "ang mo kio" }
UnlistedFlatTypes == { "2 ROOM", "executive" }
UnlistedForms ==
  { f \in FloorAreas \X LeaseDates \X PostalCodes
           \X (Range(towns) \cup UnlistedTowns)
           \X (Range(flat_types) \cup UnlistedFlatTypes) :
      f[4] \in UnlistedTowns \/ f[5] \in UnlistedFlatTypes }

\* The forms submitted in the process-lifecycle specification.
SampleForms ==
  { << n[1], n[2], n[3], t, f >> :
      n \in { << floor_area_value, lease_commence_date_value, postal_code_value >>,
              << floor_area_max, lease_commence_date_min, postal_code_min >> },
      t \in { towns[1], towns[15] },
      f \in { flat_types[2], flat_types[5] } }

\* Raw outputs of the opaque model, in cents.
ExampleRaws == { 41237450, 41250000, 41350000, 41250001, 41349999, -49999 }
RawOutputs ==
  ExampleRaws \cup { k * 50000 : k \in (0 - MaxRawHalves)..MaxRawHalves }
\* The raw outputs drawn in the process-lifecycle specification.
SampleRaws == { 41237450, -49999 }

\* ------------------------------------------------------------- the encoder
\* A year read from the clock: it advances while the process keeps serving.
current_year_from_clock == 2024 + runs
\* current_year = 2024  # You can make this dynamic if needed
current_year == 2024

\* A list that leaves out the assumed current year.
features_without_year(fa, lc, pc) == << fa, lc, pc >>
\* features = [floor_area, lease_commence_date, postal_code, current_year]
features_head(fa, lc, pc) == << fa, lc, pc, current_year >>

\* An indicator that is set for every option but the selected one.
one_hot_inverted(option, selected) == IF option # selected THEN 1 ELSE 0
\* 1 if town == selected_town else 0
one_hot(option, selected) == IF option = selected THEN 1 ELSE 0

\* for option in options: features.append(<indicator>)
RECURSIVE append_indicators(_, _, _, _)
append_indicators(feats, options, selected, i) ==
  IF i > Len(options)
    THEN feats
    ELSE append_indicators(Append(feats, one_hot(options[i], selected)),
                           options, selected, i + 1)

\* An encoder that falls back to the first option when nothing matches.
append_with_default(feats, options, selected) ==
  IF selected \in Range(options)
    THEN append_indicators(feats, options, selected, 1)
    ELSE append_indicators(feats, options, options[1], 1)
\* One whole `for ... in options` loop of the encoder.
append_one_hot(feats, options, selected) ==
  append_indicators(feats, options, selected, 1)

\* An encoder that appends the flat-type block before the town block.
build_features_flat_first(fa, lc, pc, town, flat) ==
  append_one_hot(append_one_hot(features_head(fa, lc, pc), flat_types, flat),
                 towns, town)
\* The feature list of one request: the head, then the 26 town indicators,
\* then the 5 flat-type indicators.
build_features(fa, lc, pc, town, flat) ==
  append_one_hot(append_one_hot(features_head(fa, lc, pc), towns, town),
                 flat_types, flat)

\* The feature list handed over as it is, not wrapped in a batch.
predict_argument_unwrapped(feats) == feats
\* model.predict([features])
predict_argument(feats) == << feats >>

\* The opaque model answers with one value per row of the batch.
predict_result(batch, raw) == [ i \in 1..Len(batch) |-> raw ]

\* ---------------------------------------------------------------- rounding
\* Python round(num / den) for den > 0: nearest integer, ties to even.
round_half_even(num, den) ==
  LET q == num \div den
      r == num % den
  IN  IF 2 * r < den THEN q
      ELSE IF 2 * r > den THEN q + 1
      ELSE IF q % 2 = 0 THEN q ELSE q + 1

\* Truncation towards minus infinity instead of rounding.
floor_to_thousand(raw) == (raw \div 100000) * 1000
\* rounded_price = round(prediction[0] / 1000) * 1000   (raw in cents)
round_to_thousand(raw) == round_half_even(raw, 100000) * 1000

\* ------------------------------------------------------------- load_model
\* The value load_model() hands to the script: the cached value when there
\* is one, else the outcome of joblib.load (ok) or None (the except branch).
load_model(c, ok) ==
  IF c # << >> THEN c[1] ELSE IF ok THEN ModelHandle ELSE None

\* No memoisation at all: the body runs on every call.
cache_disabled(c, ok) == << >>
\* A store that keeps a loaded model but forgets a failed load.
cache_without_none(c, ok) ==
  IF c # << >> THEN c ELSE IF ok THEN << ModelHandle >> ELSE << >>
\* @st.cache_resource: the first return value is stored, None included.
cache_resource(c, ok) ==
  IF c # << >> THEN c ELSE << load_model(c, ok) >>

\* An except branch that swallows the exception.
prediction_errors_swallowed(raised) == {}
\* except Exception as e: st.error(f"An error occurred during prediction: ...")
prediction_errors(raised) == IF raised THEN { PredictionError } ELSE {}

\* ------------------------------------------------------------ script runs
\* model = load_model(): the call through @st.cache_resource.  The body runs
\* only when the store is empty; ok is the outcome of joblib.load then.
call_load_model(ok) ==
  /\ model' = load_model(cache, ok)
  /\ cache' = cache_resource(cache, ok)
  /\ load_calls' = IF cache = << >> THEN load_calls + 1 ELSE load_calls
  /\ load_failed' = (load_failed \/ (cache = << >> /\ ~ok))

\* A run in which the `if predict_clicked:` block is not entered.
no_inference ==
  /\ features' = << >>
  /\ predict_batch' = << >>
  /\ predict_calls' = 0
  /\ predict_raised' = FALSE
  /\ prediction' = << >>
  /\ rounded_price' = << >>
  /\ UNCHANGED << had_inference_error, probe >>

set_widgets(form) ==
  /\ floor_area' = form[1]
  /\ lease_commence_date' = form[2]
  /\ postal_code' = form[3]
  /\ selected_town' = form[4]
  /\ selected_flat_type' = form[5]

\* The history variable probe records one encoding (record = TRUE) the
\* first time, and is never overwritten.
record_probe(form, record) ==
  probe' = IF record /\ probe = << >>
             THEN << [run |-> runs + 1, input |-> form, vector |-> features'] >>
             ELSE probe

\* Lines 126-133: load_model() yields None; the run reports the error and
\* ends in st.stop() before any widget exists.  The st.error inside
\* load_model shows when its body runs; on a cache hit Streamlit may or may
\* not replay it (replay).
run_stopped(ok, replay) ==
  /\ runs < MaxRuns
  /\ load_model(cache, ok) = None
  /\ call_load_model(ok)
  /\ errors' = { ModelUnavailable }
                 \cup (IF cache = << >> \/ replay THEN { LoadError } ELSE {})
  /\ stopped' = TRUE
  /\ form_rendered' = FALSE
  /\ completed' = FALSE
  /\ predict_clicked' = FALSE
  /\ no_inference
  /\ UNCHANGED widgets
  /\ runs' = runs + 1

\* Lines 126-251, 311-336: the model is there, the button was not clicked.
run_idle(form, ok) ==
  /\ runs < MaxRuns
  /\ load_model(cache, ok) # None
  /\ call_load_model(ok)
  /\ set_widgets(form)
  /\ predict_clicked' = FALSE
  /\ no_inference
  /\ errors' = {}
  /\ stopped' = FALSE
  /\ form_rendered' = TRUE
  /\ completed' = TRUE
  /\ runs' = runs + 1

\* Lines 253-272 of a run with the button clicked: the encoding and the
\* call of model.predict, common to both outcomes of the call.
encode_and_call(form, ok) ==
  /\ runs < MaxRuns
  /\ load_model(cache, ok) # None
  /\ call_load_model(ok)
  /\ set_widgets(form)
  /\ predict_clicked' = TRUE
  /\ features' = build_features(form[1], form[2], form[3], form[4], form[5])
  /\ predict_batch' = predict_argument(features')
  /\ predict_calls' = 1
  /\ stopped' = FALSE
  /\ form_rendered' = TRUE
  /\ completed' = TRUE
  /\ runs' = runs + 1

\* Lines 253-307: model.predict returns; the price is rounded and shown.
run_predict_returns(form, ok, raw, record) ==
  /\ encode_and_call(form, ok)
  /\ predict_raised' = FALSE
  /\ prediction' = predict_result(predict_batch', raw)
  /\ rounded_price' = << round_to_thousand(prediction'[1]) >>
  /\ errors' = prediction_errors(FALSE)
  /\ record_probe(form, record)
  /\ UNCHANGED had_inference_error

\* Lines 253-272, 309-310: model.predict raises; the except branch reports.
run_predict_raises(form, ok, record) ==
  /\ encode_and_call(form, ok)
  /\ predict_raised' = TRUE
  /\ prediction' = << >>
  /\ rounded_price' = << >>
  /\ errors' = prediction_errors(TRUE)
  /\ record_probe(form, record)
  /\ had_inference_error' = TRUE

\* --------------------------------------------- the process, request by request
\* The process has started and no request has been served; the widgets hold
\* their declared defaults (selectboxes default to their first option).
Init ==
  /\ cache = << >>
  /\ load_calls = 0
  /\ model = Unbound
  /\ floor_area = floor_area_value
  /\ lease_commence_date = lease_commence_date_value
  /\ postal_code = postal_code_value
  /\ selected_town = towns[1]
  /\ selected_flat_type = flat_types[1]
  /\ predict_clicked = FALSE
  /\ features = << >>
  /\ predict_batch = << >>
  /\ predict_calls = 0
  /\ predict_raised = FALSE
  /\ prediction = << >>
  /\ rounded_price = << >>
  /\ errors = {}
  /\ stopped = FALSE
  /\ form_rendered = FALSE
  /\ completed = FALSE
  /\ runs = 0
  /\ load_failed = FALSE
  /\ had_inference_error = FALSE
  /\ probe = << >>

\* joblib.load is attempted, and can fail, only while the store is empty.
LoadOutcomes == IF cache = << >> THEN BOOLEAN ELSE { TRUE }
\* An encoding can be recorded only while none is.
RecordChoices == IF probe = << >> THEN BOOLEAN ELSE { FALSE }

Stopped == \E ok \in LoadOutcomes, replay \in BOOLEAN : run_stopped(ok, replay)

Idle == \E form \in SampleForms, ok \in LoadOutcomes : run_idle(form, ok)

PredictReturns ==
  \E form \in SampleForms, ok \in LoadOutcomes, raw \in SampleRaws,
     record \in RecordChoices :
    run_predict_returns(form, ok, raw, record)

PredictRaises ==
  \E form \in SampleForms, ok \in LoadOutcomes, record \in RecordChoices :
    run_predict_raises(form, ok, record)

Next == Stopped \/ Idle \/ PredictReturns \/ PredictRaises

Spec == Init /\ [][Next]_vars

\* ------------------------------------ the encoder over the whole form domain
\* The state after a run without a click, the model loaded, the widgets
\* holding one form of the set forms, and one more run to go.
form_shown(forms) ==
  /\ cache = << ModelHandle >>
  /\ load_calls = 1
  /\ model = ModelHandle
  /\ \E form \in forms :
       /\ floor_area = form[1]
       /\ lease_commence_date = form[2]
       /\ postal_code = form[3]
       /\ selected_town = form[4]
       /\ selected_flat_type = form[5]
  /\ predict_clicked = FALSE
  /\ features = << >>
  /\ predict_batch = << >>
  /\ predict_calls = 0
  /\ predict_raised = FALSE
  /\ prediction = << >>
  /\ rounded_price = << >>
  /\ errors = {}
  /\ stopped = FALSE
  /\ form_rendered = TRUE
  /\ completed = TRUE
  /\ runs = MaxRuns - 1
  /\ load_failed = FALSE
  /\ had_inference_error = FALSE
  /\ probe = << >>

\* A click on "Predict Price": the rerun sees the widget values as they are.
ClickReturns == \E raw \in RawOutputs : run_predict_returns(widgets, TRUE, raw, FALSE)

ClickRaises == run_predict_raises(widgets, TRUE, FALSE)

NextClick == ClickReturns \/ ClickRaises

InitEncode == form_shown(ValidForms)

SpecEncode == InitEncode /\ [][NextClick]_vars

\* The same encoder block fed a town or flat type outside its option list
\* (st.selectbox itself only ever returns a listed option).
InitUnlisted == form_shown(UnlistedForms)

SpecUnlisted == InitUnlisted /\ [][NextClick]_vars

\* ================================================================== claims
Abs(x) == IF x < 0 THEN 0 - x ELSE x

\* Positions of an option in its list (one position, as the lists hold no
\* duplicates).
PositionsOf(options, selected) ==
  { i \in DOMAIN options : options[i] = selected }

\* Slots of the vector that hold 1, among slots lo..hi.
OnesIn(vector, lo, hi) ==
  { k \in lo..hi : k \in DOMAIN vector /\ vector[k] = 1 }

ZeroOrOne(vector, lo, hi) ==
  \A k \in lo..hi : k \in DOMAIN vector /\ vector[k] \in { 0, 1 }

\* C1: for every valid form (numeric fields in their domains, a listed town,
\* a listed flat type) the feature list built on a click, and the single row
\* of the batch passed to model.predict, has exactly 35 elements.
C1_VectorHas35Elements ==
  (predict_clicked /\ widgets \in ValidForms) =>
    /\ Len(features) = 35
    /\ predict_calls = 1
    /\ Len(predict_batch) = 1
    /\ Len(predict_batch[1]) = 35

C1_Witness ==
  /\ predict_clicked
  /\ predict_calls = 1
  /\ widgets = << floor_area_max, lease_commence_date_min, postal_code_max,
                  towns[26], flat_types[5] >>
  /\ Len(predict_batch[1]) = 35

\* C2: for every listed town t and flat type f, exactly one of the 26 town
\* slots is 1, the one at t's declared position, exactly one of the 5
\* flat-type slots is 1, the one at f's declared position, and every other
\* indicator slot is 0.
C2_ExactlyOneIndicatorPerBlock ==
  (predict_clicked /\ widgets \in ValidForms) =>
    /\ ZeroOrOne(features, 5, 35)
    /\ Cardinality(OnesIn(features, 5, 30)) = 1
    /\ OnesIn(features, 5, 30) = { 4 + i : i \in PositionsOf(towns, selected_town) }
    /\ Cardinality(OnesIn(features, 31, 35)) = 1
    /\ OnesIn(features, 31, 35) =
         { 30 + j : j \in PositionsOf(flat_types, selected_flat_type) }

C2_Witness ==
  /\ predict_clicked
  /\ selected_town = "KALLANG/WHAMPOA"
  /\ selected_flat_type = "MULTI-GENERATION"
  /\ OnesIn(features, 5, 35) = { 19, 35 }

\* C3: the positions are fixed: slot 1 floor area, slot 2 lease commencement
\* year, slot 3 postal code, slot 4 the constant 2024, slots 5-30 the town
\* indicators in declared order, slots 31-35 the flat-type indicators in
\* declared order; "ANG MO KIO" with "4 ROOM" puts a 1 at slots 5 and 32 and
\* nowhere else among slots 5-35.
C3_FixedPositions ==
  (predict_clicked /\ widgets \in ValidForms) =>
    /\ Len(features) = 35
    /\ features[1] = floor_area
    /\ features[2] = lease_commence_date
    /\ features[3] = postal_code
    /\ features[4] = 2024
    /\ \A i \in 1..26 : (features[4 + i] = 1) <=> (towns[i] = selected_town)
    /\ \A j \in 1..5 : (features[30 + j] = 1) <=> (flat_types[j] = selected_flat_type)
    /\ (selected_town = "ANG MO KIO" /\ selected_flat_type = "4 ROOM") =>
         OnesIn(features, 5, 35) = { 5, 32 }

C3_Witness ==
  /\ predict_clicked
  /\ selected_town = "ANG MO KIO"
  /\ selected_flat_type = "4 ROOM"
  /\ SubSeq(features, 1, 5) = << 148, 1992, 520329, 2024, 1 >>
  /\ SubSeq(features, 31, 35) = << 0, 1, 0, 0, 0 >>

\* C4: every displayed price is the raw output rounded to the nearest 1000:
\* it is a multiple of 1000 and differs from the raw output by at most 500
\* (amounts in cents: 50000); a raw output of 412,374.50 shows 412,000.
C4_RoundedToNearestThousand ==
  (predict_clicked /\ ~predict_raised) =>
    /\ Len(rounded_price) = 1
    /\ rounded_price[1] % 1000 = 0
    /\ Abs(rounded_price[1] * 100 - prediction[1]) <= 50000
    /\ (prediction[1] = 41237450 => rounded_price[1] = 412000)

C4_Witness ==
  /\ predict_clicked
  /\ prediction = << 41237450 >>
  /\ rounded_price = << 412000 >>

\* C5: once the artifact load has failed, every run reports the
\* model-unavailable error and stops before the form is rendered;
\* model.predict is not invoked and no price is displayed.
C5_LoadFailureBlocksEveryRequest ==
  load_failed =>
    /\ stopped
    /\ ModelUnavailable \in errors
    /\ ~form_rendered
    /\ ~predict_clicked
    /\ predict_calls = 0
    /\ rounded_price = << >>
    /\ ~completed

C5_Witness ==
  /\ load_failed
  /\ runs >= 3
  /\ load_calls = 1
  /\ stopped
  /\ ModelUnavailable \in errors

\* C6: a raise of model.predict is caught in that request: it shows the
\* prediction error and no price, and the run still reaches the end of the
\* script; a later request whose predict call returns shows its price and no
\* error, whatever failed before.
C6_InferenceErrorIsPerRequest ==
  /\ (predict_clicked /\ predict_raised) =>
       /\ PredictionError \in errors
       /\ rounded_price = << >>
       /\ completed
       /\ ~stopped
  /\ (had_inference_error /\ predict_clicked /\ ~predict_raised) =>
       /\ rounded_price = << round_to_thousand(prediction[1]) >>
       /\ errors = {}
       /\ completed
  /\ (had_inference_error /\ ~predict_clicked) =>
       /\ errors = {}
       /\ completed
       /\ form_rendered

C6_Witness ==
  /\ had_inference_error
  /\ predict_clicked
  /\ ~predict_raised
  /\ rounded_price = << 412000 >>
  /\ errors = {}

C8_LoadedOnceAndReused ==
  [][ /\ load_calls' <= 1
      /\ cache' # << >>
      /\ model' = cache'[1]
      /\ (cache # << >> => (cache' = cache /\ load_calls' = load_calls)) ]_vars

C8_Witness ==
  /\ runs >= 3
  /\ load_calls = 1
  /\ cache = << ModelHandle >>
  /\ model = ModelHandle

\* C10: a run with the button clicked calls model.predict exactly once, with
\* a batch of exactly one row, the feature list, and shows the rounding of
\* the first element of the answer; a run without a click calls it not at
\* all and shows no price.
C10_InferenceIsClickGated ==
  /\ predict_clicked =>
       /\ predict_calls = 1
       /\ Len(predict_batch) = 1
       /\ predict_batch[1] = features
       /\ (~predict_raised =>
             rounded_price = << round_to_thousand(prediction[1]) >>)
  /\ ~predict_clicked =>
       /\ predict_calls = 0
       /\ predict_batch = << >>
       /\ rounded_price = << >>

C10_Witness ==
  /\ predict_clicked
  /\ predict_calls = 1
  /\ Len(predict_batch) = 1
  /\ rounded_price = << 0 >>
  /\ runs >= 2

\* C9: a town or flat type outside its list raises nothing in the encoder:
\* every slot of that field's block is 0, the list still has 35 elements and
\* is still passed to model.predict.
C9_UnlistedCategoryEncodesAllZero ==
  predict_clicked =>
    /\ Len(features) = 35
    /\ ZeroOrOne(features, 5, 35)
    /\ (selected_town \notin Range(towns) => OnesIn(features, 5, 30) = {})
    /\ (selected_flat_type \notin Range(flat_types) =>
          OnesIn(features, 31, 35) = {})
    /\ predict_calls = 1
    /\ predict_batch = << features >>
    /\ (~predict_raised => (errors = {} /\ Len(rounded_price) = 1))

C9_Witness ==
  /\ predict_clicked
  /\ selected_town = "TENGAH"
  /\ selected_flat_type = "2 ROOM"
  /\ OnesIn(features, 5, 35) = {}
  /\ predict_batch = << features >>
  /\ Len(rounded_price) = 1

====
